---- MODULE Spec2Model ----
(***************************************************************************)
(* Kube-Credential: the primary/worker supervisor (cluster.ts) and the     *)
(* credential synchronisation between the issuance service and the         *)
(* verification service (push on issue, catch-up on start).                *)
(*                                                                         *)
(* Two specifications share the module:                                    *)
(*   SupervisorSpec  setupMaster, the workers it forks, exit and shutdown   *)
(*   Spec            POST /api/issue, the push sync, POST /internal/sync,   *)
(*                   GET /internal/credentials and the start-up catch-up    *)
(***************************************************************************)
EXTENDS Naturals, Integers, Sequences, FiniteSets, TLC

(***************************************************************************)
(* Bounds of the model.                                                    *)
(***************************************************************************)
\* largest worker count setupMaster is started with
MaxWorkers == 2
\* largest number of cluster.fork() calls explored (initial forks included)
MaxForks == 4
\* number of termination signals delivered to the primary
MaxSignals == 2
\* clock resolution: the grace period is observed in GraceTicks steps
GraceTicks == 1
\* clock steps observed after the grace period has passed
ExtraTicks == 1

\* number of distinct (name, credentialType, details) inputs
MaxContents == 1
\* number of calendar days the clock of the issuance service runs through
MaxDay == 2

\* longest value of WORKER_COUNT, in characters
MaxEnvLen == 3
\* largest number of logical CPUs of the host
MaxCpus == 2

(***************************************************************************)
(* Program constants.                                                      *)
(***************************************************************************)
MAX_SYNC_ATTEMPTS == 3

BASE_RETRY_DELAY_MS == 200

\* setTimeout(..., 10000) of shutdown, in milliseconds
ShutdownGraceMs == 10000

TickMs == ShutdownGraceMs \div GraceTicks

MaxElapsed == ShutdownGraceMs + ExtraTicks * TickMs

VARIABLES
    \* ---- supervisor (primary process) ----
    expectedWorkers,   \* workerCount of setupMaster
    onWorkerReady,     \* whether a cluster-ready callback was passed
    readyWorkers,      \* the ready counter of setupMaster
    readyCalls,        \* number of invocations of onWorkerReady
    nextWorkerId,      \* id the next cluster.fork() gets
    wstate,            \* worker id -> "starting" | "ready" | "draining" | "exited"
    listener,          \* worker id -> message listener attached by the primary
    stopsSent,         \* worker id -> number of worker.kill('SIGTERM') calls
    inbox,             \* workers whose 'ready' message is in flight
    exitEvents,        \* workers whose 'exit' event the primary has not handled
    primary,           \* "running" | "exited"
    signals,           \* number of termination signals delivered to the primary
    timers,            \* deadlines of the timers started by shutdown
    elapsed,           \* milliseconds since the first termination signal
    forceKilled,       \* workers alive when the primary force-exited
    sentReady,         \* workers that have called process.send('ready')
    \* ---- issuance service ----
    today,             \* calendar day of the issuance service's clock
    iSecret,           \* SYNC_SECRET of the issuance service, or NoSecret
    istore,            \* credentials table of the issuance service
    hpc,               \* issueCredential: "idle" | "syncing" | "sleeping" | "synced"
    hcred,             \* the credential the handler has created, or NoCred
    attempt,           \* attempt counter of syncCredentialWithVerificationService
    outcomes,          \* outcome of each POST attempt of the current push
    sleeps,            \* the waits of the current push, in ms
    response,          \* client response of the current request, or NoResponse
    \* ---- verification service ----
    vSecret,           \* SYNC_SECRET of the verification service, or NoSecret
    vstore,            \* credentials table of the verification service
    vphase,            \* "offline" | "fetching" | "online"
    cursor,            \* latestIssuedAt read by performCatchUpSync, or NoCursor
    reply,             \* response to the catch-up GET in flight, or NoReply
    lastCatchUp,       \* outcome of the last performCatchUpSync
    issuedOffline,     \* ids issued since the verification service went offline
    \* ---- process configuration ----
    workerCountEnv,    \* process.env.WORKER_COUNT, or Unset
    cpuCount,          \* os.cpus().length
    workerCountOut,    \* result of getWorkerCount, or NotCalled
    warnings,          \* number of console.warn calls of getWorkerCount
    \* ---- requests served by the internal and the verify endpoints ----
    lastOp,            \* the last request served and its response, or NoOp
    lastBody,          \* the body of the last POST /api/verify, or NoBody
    \* ---- two issuance workers sharing one store ----
    rpc,               \* worker -> position of its issueCredential handler
    rres,              \* worker -> response of its handler, or NoResponse
    \* ---- one process running index.ts ----
    isPrimary,         \* cluster.isPrimary of the process
    mode,              \* position of the process in main / startWorker
    sent               \* number of 'ready' messages the process has sent

supVars == <<expectedWorkers, onWorkerReady, readyWorkers, readyCalls,
             nextWorkerId, wstate, listener, stopsSent, inbox, exitEvents,
             primary, signals, timers, elapsed, forceKilled, sentReady>>

syncVars == <<today, iSecret, istore, hpc, hcred, attempt, outcomes, sleeps,
              response, vSecret, vstore, vphase, cursor,
              reply, lastCatchUp, issuedOffline>>

cfgVars == <<workerCountEnv, cpuCount, workerCountOut, warnings>>

epVars == <<lastOp, lastBody>>

raceVars == <<rpc, rres>>

mainVars == <<isPrimary, mode, sent>>

extVars == <<cfgVars, epVars, raceVars, mainVars>>

vars == <<supVars, syncVars, extVars>>

(***************************************************************************)
(* Supervisor: helpers                                                     *)
(***************************************************************************)
WorkerIds == 1..MaxForks

Forked == 1..(nextWorkerId - 1)

Alive(w) == w \in Forked /\ wstate[w] \in {"starting", "ready", "draining"}

LiveWorkers == {w \in Forked : Alive(w)}

\* cluster.workers: a worker stays registered until its 'exit' event is emitted
ClusterWorkers == {w \in Forked : Alive(w) \/ w \in exitEvents}

\* the listener of the fork loop: counts the ready message
CountingListener == "counting"

\* the listener of the exit handler: logs the ready message only
LoggingListener == "logging"

InitialListener == CountingListener

ReplacementListener == LoggingListener

\* variant: the timer is set to twice the grace period
ShutdownDeadlineDoubled(now) == now + 2 * ShutdownGraceMs

\* the deadline of the timer that shutdown starts at time now
ShutdownDeadline(now) == now + ShutdownGraceMs

(***************************************************************************)
(* Supervisor: state after setupMaster has returned                        *)
(***************************************************************************)
SupInitWith(workerCount, callback) ==
    /\ expectedWorkers = workerCount
    /\ onWorkerReady = callback
    /\ readyWorkers = 0
    /\ readyCalls = 0
    /\ nextWorkerId = expectedWorkers + 1
    /\ wstate = [w \in WorkerIds |-> IF w <= expectedWorkers THEN "starting" ELSE "none"]
    /\ listener = [w \in WorkerIds |-> IF w <= expectedWorkers THEN InitialListener ELSE "none"]
    /\ stopsSent = [w \in WorkerIds |-> 0]
    /\ inbox = {}
    /\ exitEvents = {}
    /\ primary = "running"
    /\ signals = 0
    /\ timers = <<>>
    /\ elapsed = 0
    /\ forceKilled = {}
    /\ sentReady = {}
    /\ isPrimary = TRUE
    /\ mode = "supervisor"
    /\ sent = 0

(***************************************************************************)
(* Worker side                                                             *)
(***************************************************************************)
\* notifyReady: cluster.isWorker && process.send -> process.send('ready')
NotifyReady(w) ==
    /\ inbox' = inbox \cup {w}
    /\ sentReady' = sentReady \cup {w}

\* startWorker: the database is initialised, app.listen has bound the port and
\* its callback calls notifyReady
WorkerListening(w) ==
    /\ primary = "running"
    /\ w \in Forked
    /\ wstate[w] = "starting"
    /\ wstate' = [wstate EXCEPT ![w] = "ready"]
    /\ NotifyReady(w)
    /\ UNCHANGED <<expectedWorkers, onWorkerReady, readyWorkers, readyCalls,
                   nextWorkerId, listener, stopsSent, exitEvents, primary,
                   signals, timers, elapsed, forceKilled>>
    /\ UNCHANGED syncVars
    /\ UNCHANGED extVars

\* a worker process ends (exit code or signal); the primary will get 'exit'.
\* The guard keeps a fork id free for the replacement of every pending exit.
WorkerExit(w) ==
    /\ primary = "running"
    /\ Alive(w)
    /\ nextWorkerId + Cardinality(exitEvents) <= MaxForks
    /\ wstate' = [wstate EXCEPT ![w] = "exited"]
    /\ exitEvents' = exitEvents \cup {w}
    /\ UNCHANGED <<expectedWorkers, onWorkerReady, readyWorkers, readyCalls,
                   nextWorkerId, listener, stopsSent, inbox, primary, signals,
                   timers, elapsed, forceKilled, sentReady>>
    /\ UNCHANGED syncVars
    /\ UNCHANGED extVars

(***************************************************************************)
(* Primary side                                                            *)
(***************************************************************************)
\* worker.on('message') of the fork loop
OnReadyCounting ==
    /\ readyWorkers' = readyWorkers + 1
    /\ readyCalls' = IF readyWorkers + 1 = expectedWorkers /\ onWorkerReady
                      THEN readyCalls + 1
                      ELSE readyCalls

\* newWorker.on('message') of the exit handler
OnReadyLogging ==
    /\ UNCHANGED <<readyWorkers, readyCalls>>

\* the primary handles the 'ready' message of worker w
MasterOnMessage(w) ==
    /\ primary = "running"
    /\ w \in inbox
    /\ inbox' = inbox \ {w}
    /\ IF listener[w] = CountingListener THEN OnReadyCounting ELSE OnReadyLogging
    /\ UNCHANGED <<expectedWorkers, onWorkerReady, nextWorkerId, wstate,
                   listener, stopsSent, exitEvents, primary, signals, timers,
                   elapsed, forceKilled, sentReady>>
    /\ UNCHANGED syncVars
    /\ UNCHANGED extVars

\* cluster.fork() with the given message listener attached
Fork(l) ==
    /\ wstate' = [wstate EXCEPT ![nextWorkerId] = "starting"]
    /\ listener' = [listener EXCEPT ![nextWorkerId] = l]
    /\ nextWorkerId' = nextWorkerId + 1

\* variant: the exit handler logs the exit and forks nothing
OnExitWithoutFork(w) ==
    /\ primary = "running"
    /\ w \in exitEvents
    /\ exitEvents' = exitEvents \ {w}
    /\ UNCHANGED <<expectedWorkers, onWorkerReady, readyWorkers, readyCalls,
                   nextWorkerId, wstate, listener, stopsSent, inbox, primary,
                   signals, timers, elapsed, forceKilled, sentReady>>
    /\ UNCHANGED syncVars
    /\ UNCHANGED extVars

\* cluster.on('exit'): log, fork a replacement, attach the logging listener
OnExit(w) ==
    /\ primary = "running"
    /\ w \in exitEvents
    /\ exitEvents' = exitEvents \ {w}
    /\ Fork(ReplacementListener)
    /\ UNCHANGED <<expectedWorkers, onWorkerReady, readyWorkers, readyCalls,
                   stopsSent, inbox, primary, signals, timers, elapsed,
                   forceKilled, sentReady>>
    /\ UNCHANGED syncVars
    /\ UNCHANGED extVars

\* the ways a cluster.fork() fails: the spawn throws inside fork() (E2BIG), or
\* fork() returns a worker whose process cannot be spawned and which emits
\* 'error' afterwards (ENOENT, EAGAIN)
ForkFailures == {"throws", "error"}

\* cluster.on('exit') when the process of the replacement cannot be spawned.
\* In both ways the id of the new worker is taken. "throws": fork() throws
\* inside the handler, there is no worker object and newWorker.on never runs.
\* "error": fork() returns a worker (it is registered and the logging listener
\* attached) and the handler completes; the worker then emits 'error', which
\* has no listener. Either is an uncaught exception and ends the primary. The
\* workers of the cluster end with their primary (their IPC channel
\* disconnects); the replacement never ran.
OnExitForkFails(w, how) ==
    /\ primary = "running"
    /\ w \in exitEvents
    /\ exitEvents' = exitEvents \ {w}
    /\ nextWorkerId' = nextWorkerId + 1
    /\ listener' = IF how = "error"
                   THEN [listener EXCEPT ![nextWorkerId] = ReplacementListener]
                   ELSE listener
    /\ wstate' = [v \in WorkerIds |->
                     IF (how = "error" /\ v = nextWorkerId) \/ Alive(v)
                     THEN "exited" ELSE wstate[v]]
    /\ forceKilled' = LiveWorkers
    /\ primary' = "exited"
    /\ UNCHANGED <<expectedWorkers, onWorkerReady, readyWorkers, readyCalls,
                   stopsSent, inbox, signals, timers, elapsed, sentReady>>
    /\ UNCHANGED syncVars
    /\ UNCHANGED extVars

\* what one cluster.fork() of the fork loop does: the process is spawned, or
\* the fork fails in one of the two ways
ForkResults == {"spawned"} \cup ForkFailures

\* the fork loop of setupMaster, every fork spawning its process: the workers
\* 1..workerCount are registered with the counting listener and setupMaster
\* returns
ForkLoop ==
    /\ primary = "running"
    /\ nextWorkerId = 1
    /\ nextWorkerId' = expectedWorkers + 1
    /\ wstate' = [v \in WorkerIds |->
                     IF v <= expectedWorkers THEN "starting" ELSE "none"]
    /\ listener' = [v \in WorkerIds |->
                       IF v <= expectedWorkers THEN InitialListener ELSE "none"]
    /\ UNCHANGED <<expectedWorkers, onWorkerReady, readyWorkers, readyCalls,
                   stopsSent, inbox, exitEvents, primary, signals, timers,
                   elapsed, forceKilled, sentReady>>
    /\ UNCHANGED syncVars
    /\ UNCHANGED extVars

\* the fork loop of setupMaster with a failing fork; result[i] is what the
\* i-th cluster.fork() does. The loop has no try/catch: it ends at the first
\* fork that throws, whose id is taken without a worker or a listener. Every
\* fork before it returned a worker, which is registered with the counting
\* listener, with a process or without one. A throw is an uncaught exception
\* inside setupMaster; the 'error' event of a worker without a process has no
\* listener and is one as soon as setupMaster has returned. The primary ends
\* before any message or exit event is handled, and the workers that had a
\* process end with it.
ForkLoopFails(result) ==
    LET n == expectedWorkers
        thrown == {i \in 1..n : result[i] = "throws"}
        stop == IF thrown = {} THEN n + 1
                ELSE CHOOSE i \in thrown : \A k \in thrown : i <= k
        returned == 1..(stop - 1)
    IN /\ primary = "running"
       /\ nextWorkerId = 1
       /\ \E i \in 1..n : i <= stop /\ result[i] # "spawned"
       /\ \A i \in 1..n : i > stop => result[i] = "spawned"
       /\ nextWorkerId' = IF stop <= n THEN stop + 1 ELSE n + 1
       /\ wstate' = [v \in WorkerIds |->
                        IF v \in returned THEN "exited" ELSE "none"]
       /\ listener' = [v \in WorkerIds |->
                          IF v \in returned THEN InitialListener ELSE "none"]
       /\ forceKilled' = {i \in returned : result[i] = "spawned"}
       /\ primary' = "exited"
       /\ UNCHANGED <<expectedWorkers, onWorkerReady, readyWorkers, readyCalls,
                      stopsSent, inbox, exitEvents, signals, timers, elapsed,
                      sentReady>>
       /\ UNCHANGED syncVars
       /\ UNCHANGED extVars

\* shutdown: SIGTERM to every worker of cluster.workers, then setTimeout
Shutdown ==
    /\ stopsSent' = [w \in WorkerIds |->
                        IF w \in ClusterWorkers THEN stopsSent[w] + 1 ELSE stopsSent[w]]
    /\ wstate' = [w \in WorkerIds |-> IF Alive(w) THEN "draining" ELSE wstate[w]]
    /\ timers' = Append(timers, ShutdownDeadline(elapsed))

\* process.on('SIGTERM', shutdown); process.on('SIGINT', shutdown)
Signal(sig) ==
    /\ primary = "running"
    /\ sig \in {"SIGTERM", "SIGINT"}
    /\ signals < MaxSignals
    /\ signals' = signals + 1
    /\ Shutdown
    /\ UNCHANGED <<expectedWorkers, onWorkerReady, readyWorkers, readyCalls,
                   nextWorkerId, listener, inbox, exitEvents, primary, elapsed,
                   forceKilled, sentReady>>
    /\ UNCHANGED syncVars
    /\ UNCHANGED extVars

TimerDue == \E i \in 1..Len(timers) : timers[i] <= elapsed

\* the deadlines of the pending timers that lie within the next clock step
NextDeadlines ==
    {timers[i] : i \in {j \in 1..Len(timers) :
                            timers[j] > elapsed /\ timers[j] < elapsed + TickMs}}

SetMin(S) == CHOOSE x \in S : \A y \in S : x <= y

\* time passes once a signal has started the clock; a due timer of the running
\* primary runs before time moves on, and time never steps over a deadline
Tick ==
    /\ timers # <<>>
    /\ elapsed < MaxElapsed
    /\ primary = "running" => ~TimerDue
    /\ elapsed' = IF primary = "running" /\ NextDeadlines # {}
                   THEN SetMin(NextDeadlines)
                   ELSE elapsed + TickMs
    /\ UNCHANGED <<expectedWorkers, onWorkerReady, readyWorkers, readyCalls,
                   nextWorkerId, wstate, listener, stopsSent, inbox, exitEvents,
                   primary, signals, timers, forceKilled, sentReady>>
    /\ UNCHANGED syncVars
    /\ UNCHANGED extVars

\* the timer callback: process.exit(0) in the primary; the workers of a cluster
\* end with their primary (their IPC channel disconnects)
ForceShutdown ==
    /\ primary = "running"
    /\ TimerDue
    /\ primary' = "exited"
    /\ forceKilled' = LiveWorkers
    /\ wstate' = [w \in WorkerIds |-> IF Alive(w) THEN "exited" ELSE wstate[w]]
    /\ UNCHANGED <<expectedWorkers, onWorkerReady, readyWorkers, readyCalls,
                   nextWorkerId, listener, stopsSent, inbox, exitEvents, signals,
                   timers, elapsed, sentReady>>
    /\ UNCHANGED syncVars
    /\ UNCHANGED extVars

(***************************************************************************)
(* Credentials, hashes and timestamps                                      *)
(***************************************************************************)
NoSecret == "none"

NoId == <<"none">>

\* no credential: the handler has created none
NoCred == [id |-> NoId, content |-> 0, issuedBy |-> "none", issuedAt |-> <<0>>,
           hash |-> <<"none">>]

\* null / undefined timestamp
NoCursor == <<>>

\* status of a request that got no HTTP response (fetch rejects)
NetworkError == 0

\* a response of GET /internal/credentials as its reader sees it: the status,
\* body.success, Array.isArray(body.data), body.count and the rows of body.data
ListResponse(status, success, isArray, rows) ==
    [status |-> status, success |-> success, isArray |-> isArray,
     count |-> Len(rows), data |-> rows]

NoReply == ListResponse(-1, FALSE, FALSE, <<>>)

NoResponse == [status |-> 0, id |-> NoId]

NoCatchUp == [result |-> "none", count |-> 0, rows |-> 0, bad |-> 0]

\* the input whose details are {}: IssueCredentialSchema accepts it,
\* CredentialPayloadSchema does not
EmptyDetails == -1

\* the inputs whose details have at least one property
PayloadContents == 1..MaxContents

\* the inputs IssueCredentialSchema accepts
Contents == {EmptyDetails} \cup PayloadContents

\* request bodies of POST /api/issue: 0 is a body the schema rejects
Inputs == {0} \cup Contents

Days == 1..MaxDay

Secrets == {NoSecret, "k"}

\* serviceConfig.workerId of the issuing process
IssuerId == "worker-1"

\* sha256(content): an injective digest
Sha256(content) == <<"sha256", content>>

\* canonicalize(input): the JSON text of the normalized value; the model's
\* values stand for inputs up to the order of their keys
Canonicalize(input) == <<"json", input>>

\* variant: the id also depends on the day of issuance
GenerateDeterministicIdDated(input) == Sha256(Canonicalize(<<input, today>>))

\* generateDeterministicId(input)
GenerateDeterministicId(input) == Sha256(Canonicalize(input))

GenerateIntegrityHash(fields) == Sha256(Canonicalize(fields))

\* a digest that no credential has
TamperedHash == <<"tampered">>

\* new Date().toISOString().split('T')[0]: the date part "YYYY-MM-DD"
DateOnlyString(day) == <<day>>

\* Date.parse: day and millisecond of the day; a date-only string is midnight UTC
DateParse(str) == IF Len(str) = 1 THEN <<str[1], 0>> ELSE <<str[1], str[2]>>

\* new Date(ms).toISOString(): "YYYY-MM-DDTHH:mm:ss.sssZ"
ToISOString(instant) == <<instant[1], instant[2]>>

\* a > b on instants
After(a, b) == a[1] > b[1] \/ (a[1] = b[1] /\ a[2] > b[2])

StripHash(cred) ==
    [id |-> cred.id, content |-> cred.content,
     issuedBy |-> cred.issuedBy, issuedAt |-> cred.issuedAt]

WithHash(fields, hash) ==
    [id |-> fields.id, content |-> fields.content,
     issuedBy |-> fields.issuedBy, issuedAt |-> fields.issuedAt, hash |-> hash]

\* no property besides the seven of a credential
NoExtra == 0

\* const { hash, ...rest } = credential: every property but hash, the ones
\* that are no column of the store included
Rest(cred) ==
    IF "extra" \in DOMAIN cred /\ cred.extra # NoExtra
    THEN [id |-> cred.id, content |-> cred.content, issuedBy |-> cred.issuedBy,
          issuedAt |-> cred.issuedAt, extra |-> cred.extra]
    ELSE StripHash(cred)

\* the named parameters an INSERT binds: the seven columns
Columns(cred) == WithHash(StripHash(cred), cred.hash)

\* sanitizeIncomingCredential accepts the row
HashValid(cred) == cred.hash = GenerateIntegrityHash(Rest(cred))

\* buildCredentialPayload(data, id)
BuildCredentialPayload(input, id) ==
    [id |-> id, content |-> input,
     issuedBy |-> IssuerId, issuedAt |-> DateOnlyString(today)]

Ids(store) == {c.id : c \in store}

(***************************************************************************)
(* Store adapters                                                          *)
(***************************************************************************)
FindById(store, id) == {c \in store : c.id = id}

\* INSERT INTO credentials ...
Create(store, cred) == store \cup {cred}

\* INSERT ... ON CONFLICT(id) DO UPDATE SET ...
Upsert(store, cred) == {c \in store : c.id # cred.id} \cup {Columns(cred)}

RECURSIVE UpsertRows(_, _)
UpsertRows(store, rows) ==
    IF rows = <<>> THEN store
    ELSE UpsertRows(Upsert(store, Head(rows)), Tail(rows))

\* upsertMany: one transaction over all rows; returns the number of rows
UpsertMany(store, rows) == [store |-> UpsertRows(store, rows), count |-> Len(rows)]

\* a > b on the values of a TEXT column: the strings are compared character
\* by character, so "YYYY-MM-DD" stands before every timestamp
\* "YYYY-MM-DDTHH:mm:ss.sssZ" of its day, and timestamps of one day stand in
\* the order of their time
TextAfter(a, b) ==
    \/ a[1] > b[1]
    \/ /\ a[1] = b[1]
       /\ \/ Len(a) > Len(b)
          \/ Len(a) = 2 /\ Len(b) = 2 /\ a[2] > b[2]

\* variant: ORDER BY issuedAt ASC LIMIT 1
GetEarliestIssuedAt(store) ==
    IF store = {} THEN NoCursor
    ELSE LET top == CHOOSE c \in store :
                      \A d \in store : ~TextAfter(c.issuedAt, d.issuedAt)
         IN top.issuedAt

\* SELECT issuedAt FROM credentials ORDER BY issuedAt DESC LIMIT 1
GetLatestIssuedAt(store) ==
    IF store = {} THEN NoCursor
    ELSE LET top == CHOOSE c \in store :
                      \A d \in store : ~TextAfter(d.issuedAt, c.issuedAt)
         IN top.issuedAt

\* the rows a listIssuedAfter query selects: WHERE issued_at > $1, or all rows
IssuedAfterRows(store, since) ==
    IF since = NoCursor THEN store
    ELSE {c \in store : After(DateParse(c.issuedAt), DateParse(since))}

IsAscending(rows) ==
    \A i \in 1..Len(rows) : \A j \in 1..Len(rows) :
        i < j => ~After(DateParse(rows[i].issuedAt), DateParse(rows[j].issuedAt))

\* the sequences over all of S without repetition
Orderings(S) ==
    {q \in [1..Cardinality(S) -> S] : \A i, j \in 1..Cardinality(S) : i # j => q[i] # q[j]}

\* mapRow of the issuance model: issuedAt becomes new Date(...).toISOString(),
\* the other columns and the stored hash are returned as they are
MapRow(row) == [row EXCEPT !.issuedAt = ToISOString(DateParse(row.issuedAt))]

\* listIssuedAfter: the possible results once its promise resolves, ORDER BY
\* issued_at ASC (the order of rows with equal issuedAt is the database's
\* choice), each row through mapRow
ListIssuedAfter(store, since) ==
    {[i \in DOMAIN q |-> MapRow(q[i])] :
        q \in {o \in Orderings(IssuedAfterRows(store, since)) : IsAscending(o)}}

(***************************************************************************)
(* Internal endpoints                                                      *)
(***************************************************************************)
\* the x-internal-sync-key header a service sends: its own secret, when configured
SyncKeyHeader(secret) == secret

\* variant: any header that is present passes
ValidateSyncKeyAnyHeader(configured, header) ==
    configured = NoSecret \/ header # NoSecret

\* validateSyncKey / the check of syncCredential
ValidateSyncKey(configured, header) == configured = NoSecret \/ header = configured

\* CredentialPayloadSchema.safeParse(body).success: the details of the body
\* have at least one property (and its other properties are well formed)
SchemaOk(body) == body.content \in PayloadContents

\* CredentialPayloadSchema.parse(body): the seven known properties, the
\* others are stripped
ParsePayload(body) == Columns(body)

\* POST /internal/sync of the verification service: status and resulting
\* store; the key, then SyncRequestSchema.parse, then the hash of the parsed
\* payload, then the upsert
SyncCredential(store, header, body) ==
    IF ~ValidateSyncKey(vSecret, header) THEN [status |-> 401, store |-> store]
    ELSE IF ~SchemaOk(body) THEN [status |-> 400, store |-> store]
    ELSE LET payload == ParsePayload(body)
         IN IF ~HashValid(payload) THEN [status |-> 400, store |-> store]
            ELSE [status |-> 200, store |-> Upsert(store, payload)]

\* a since parameter of white space only
BlankSince == <<-1>>

\* a since parameter that Date.parse does not understand
InvalidSince == <<-2>>

\* GET /internal/credentials of the issuance service: the possible responses
ListCredentials(header, sinceParam) ==
    IF ~ValidateSyncKey(iSecret, header)
    THEN {ListResponse(401, FALSE, FALSE, <<>>)}
    ELSE IF sinceParam = InvalidSince
    THEN {ListResponse(400, FALSE, FALSE, <<>>)}
    ELSE LET since == IF sinceParam = NoCursor \/ sinceParam = BlankSince
                      THEN NoCursor
                      ELSE ToISOString(DateParse(sinceParam))
             \* credentialModel.listIssuedAfter(since) is not awaited:
             \* credentials is a pending promise, so credentials.length is
             \* undefined (count is left out of the JSON) and data is {}
             credentials == ListIssuedAfter(istore, since)
         IN {ListResponse(200, TRUE, FALSE, <<>>)}

\* rows with the hash of the rows at positions bad replaced on the way
Tamper(rows, bad) ==
    [i \in 1..Len(rows) |->
        IF i \in bad THEN WithHash(StripHash(rows[i]), TamperedHash) ELSE rows[i]]

(***************************************************************************)
(* Issuance service: POST /api/issue and the push sync                     *)
(***************************************************************************)
SyncInitWith(isecret, vsecret) ==
    /\ today = 1
    /\ iSecret = isecret
    /\ istore = {}
    /\ hpc = "idle"
    /\ hcred = NoCred
    /\ attempt = 0
    /\ outcomes = <<>>
    /\ sleeps = <<>>
    /\ response = NoResponse
    /\ vSecret = vsecret
    /\ vstore = {}
    /\ vphase = "offline"
    /\ cursor = NoCursor
    /\ reply = NoReply
    /\ lastCatchUp = NoCatchUp
    /\ issuedOffline = {}

\* the clock of the issuance service reaches the next day
NextDay ==
    /\ today < MaxDay
    /\ today' = today + 1
    /\ UNCHANGED <<iSecret, istore, hpc, hcred, attempt, outcomes, sleeps,
                   response, vSecret, vstore, vphase, cursor, reply, lastCatchUp, issuedOffline>>
    /\ UNCHANGED supVars
    /\ UNCHANGED extVars

\* variant: the handler answers 201 as soon as the credential is stored and
\* leaves the push running
ResponseBeforeSyncDetached(id) == [status |-> 201, id |-> id]

\* what the client has received when the push starts: nothing, the handler
\* awaits syncCredentialWithVerificationService before res.status(201)
ResponseBeforeSync(id) == NoResponse

\* issueCredential up to the call of syncCredentialWithVerificationService:
\* parse, duplicate check, build, hash, create
\* variant: a duplicate request pushes the stored credential again
IssueRequestPushesDuplicate(input) ==
    /\ hpc = "idle"
    /\ attempt' = 0
    /\ outcomes' = <<>>
    /\ sleeps' = <<>>
    /\ IF input \notin Contents
       THEN /\ response' = [status |-> 400, id |-> NoId]
            /\ hcred' = NoCred
            /\ UNCHANGED <<istore, hpc, issuedOffline>>
       ELSE LET credentialId == GenerateDeterministicId(input)
                withoutHash == BuildCredentialPayload(input, credentialId)
                credential == WithHash(withoutHash, GenerateIntegrityHash(withoutHash))
                existing == FindById(istore, credentialId)
            IN IF existing # {}
               THEN /\ response' = [status |-> 409, id |-> credentialId]
                    /\ hcred' = CHOOSE c \in existing : TRUE
                    /\ hpc' = "syncing"
                    /\ UNCHANGED <<istore, issuedOffline>>
               ELSE /\ istore' = Create(istore, credential)
                    /\ hcred' = credential
                    /\ hpc' = "syncing"
                    /\ response' = ResponseBeforeSync(credentialId)
                    /\ issuedOffline' = IF vphase = "offline"
                                        THEN issuedOffline \cup {credentialId}
                                        ELSE issuedOffline
    /\ UNCHANGED <<today, iSecret, vSecret, vstore, vphase, cursor, reply, lastCatchUp>>
    /\ UNCHANGED supVars
    /\ UNCHANGED extVars

IssueRequest(input) ==
    /\ hpc = "idle"
    /\ attempt' = 0
    /\ outcomes' = <<>>
    /\ sleeps' = <<>>
    /\ IF input \notin Contents
       THEN \* IssueCredentialSchema.parse throws
            /\ response' = [status |-> 400, id |-> NoId]
            /\ hcred' = NoCred
            /\ UNCHANGED <<istore, hpc, issuedOffline>>
       ELSE LET credentialId == GenerateDeterministicId(input)
                withoutHash == BuildCredentialPayload(input, credentialId)
                credential == WithHash(withoutHash, GenerateIntegrityHash(withoutHash))
            IN IF FindById(istore, credentialId) # {}
               THEN /\ response' = [status |-> 409, id |-> credentialId]
                    /\ hcred' = NoCred
                    /\ UNCHANGED <<istore, hpc, issuedOffline>>
               ELSE /\ istore' = Create(istore, credential)
                    /\ hcred' = credential
                    /\ hpc' = "syncing"
                    /\ response' = ResponseBeforeSync(credentialId)
                    /\ issuedOffline' = IF vphase = "offline"
                                        THEN issuedOffline \cup {credentialId}
                                        ELSE issuedOffline
    /\ UNCHANGED <<today, iSecret, vSecret, vstore, vphase, cursor, reply, lastCatchUp>>
    /\ UNCHANGED supVars
    /\ UNCHANGED extVars

\* variant: every HTTP response counts as delivered
IsOkAnyResponse(status) == status # NetworkError

\* response.ok
IsOk(status) == status \in 200..299

\* the loop ends: its caller resumes after the await
SyncReturn == hpc' = "synced"

\* variant: the last failure is thrown to the caller, whose catch block hands
\* it to the error middleware (500)
AttemptFailedThrows(n) ==
    IF n >= MAX_SYNC_ATTEMPTS
    THEN /\ hpc' = "idle"
         /\ response' = [status |-> 500, id |-> NoId]
         /\ UNCHANGED sleeps
    ELSE /\ hpc' = "sleeping"
         /\ sleeps' = Append(sleeps, BASE_RETRY_DELAY_MS * n)
         /\ UNCHANGED response

\* variant: the sleep is computed from the number of the attempt to come
AttemptFailedWaitsByNext(n) ==
    IF n >= MAX_SYNC_ATTEMPTS
    THEN /\ SyncReturn
         /\ UNCHANGED <<sleeps, response>>
    ELSE /\ hpc' = "sleeping"
         /\ sleeps' = Append(sleeps, BASE_RETRY_DELAY_MS * (n + 1))
         /\ UNCHANGED response

\* the catch block of an attempt: give up after the last attempt, else sleep
AttemptFailed(n) ==
    IF n >= MAX_SYNC_ATTEMPTS
    THEN /\ SyncReturn
         /\ UNCHANGED <<sleeps, response>>
    ELSE /\ hpc' = "sleeping"
         /\ sleeps' = Append(sleeps, BASE_RETRY_DELAY_MS * n)
         /\ UNCHANGED response

\* the statuses POST /internal/sync is answered with
SyncStatuses == {200, 400, 401, 500}

\* the position of a push whose POST has been answered with status, the
\* response being on its way
Answered(status) ==
    IF status = 200 THEN "answered 200"
    ELSE IF status = 400 THEN "answered 400"
    ELSE IF status = 401 THEN "answered 401"
    ELSE "answered 500"

\* syncCredentialWithVerificationService without a fetch API in the runtime:
\* it logs 'Verification sync skipped' and returns before the loop
PushSkipped ==
    /\ hpc = "syncing"
    /\ attempt = 0
    /\ SyncReturn
    /\ UNCHANGED <<today, iSecret, istore, hcred, attempt, outcomes, sleeps,
                   response, vSecret, vstore, vphase, cursor, reply,
                   lastCatchUp, issuedOffline>>
    /\ UNCHANGED supVars
    /\ UNCHANGED extVars

\* the while loop: attempt += 1 and fetchFn(endpoint, ...) sends the POST
PushSend ==
    /\ hpc = "syncing"
    /\ attempt < MAX_SYNC_ATTEMPTS
    /\ attempt' = attempt + 1
    /\ hpc' = "posting"
    /\ UNCHANGED <<today, iSecret, istore, hcred, outcomes, sleeps, response,
                   vSecret, vstore, vphase, cursor, reply, lastCatchUp,
                   issuedOffline>>
    /\ UNCHANGED supVars
    /\ UNCHANGED extVars

\* the verification service handles the POST while fetch is awaited: its
\* syncCredential answers, or its error middleware answers 500
VerificationHandlesPush(kind) ==
    /\ hpc = "posting"
    /\ vphase = "online"
    /\ \/ /\ kind = "error500"
          /\ hpc' = Answered(500)
          /\ UNCHANGED vstore
       \/ /\ kind = "handled"
          /\ LET res == SyncCredential(vstore, SyncKeyHeader(iSecret), hcred)
             IN /\ vstore' = res.store
                /\ hpc' = Answered(res.status)
    /\ UNCHANGED <<today, iSecret, istore, hcred, attempt, outcomes, sleeps,
                   response, vSecret, vphase, cursor, reply, lastCatchUp,
                   issuedOffline>>
    /\ UNCHANGED supVars
    /\ UNCHANGED extVars

\* await fetchFn(...) settles: it rejects (the request or the response was
\* lost on the network), or it resolves with the response; response.ok
\* returns, any other status is thrown into the catch block
PushSettles(net) ==
    /\ \/ /\ net = "rejects"
          /\ hpc = "posting" \/ \E st \in SyncStatuses : hpc = Answered(st)
          /\ outcomes' = Append(outcomes, NetworkError)
          /\ AttemptFailed(attempt)
       \/ /\ net = "resolves"
          /\ \E st \in SyncStatuses :
                /\ hpc = Answered(st)
                /\ outcomes' = Append(outcomes, st)
                /\ IF IsOk(st)
                   THEN SyncReturn /\ UNCHANGED <<sleeps, response>>
                   ELSE AttemptFailed(attempt)
    /\ UNCHANGED <<today, iSecret, istore, hcred, attempt, vSecret, vstore,
                   vphase, cursor, reply, lastCatchUp, issuedOffline>>
    /\ UNCHANGED supVars
    /\ UNCHANGED extVars

\* the sleep between two attempts ends
PushWake ==
    /\ hpc = "sleeping"
    /\ hpc' = "syncing"
    /\ UNCHANGED <<today, iSecret, istore, hcred, attempt, outcomes, sleeps,
                   response, vSecret, vstore, vphase, cursor, reply, lastCatchUp, issuedOffline>>
    /\ UNCHANGED supVars
    /\ UNCHANGED extVars

\* issueCredential after the await: res.status(201).json(...)
IssueRespond ==
    /\ hpc = "synced"
    /\ response' = [status |-> 201, id |-> hcred.id]
    /\ hpc' = "idle"
    /\ UNCHANGED <<today, iSecret, istore, hcred, attempt, outcomes, sleeps,
                   vSecret, vstore, vphase, cursor,
                   reply, lastCatchUp, issuedOffline>>
    /\ UNCHANGED supVars
    /\ UNCHANGED extVars

(***************************************************************************)
(* Verification service: start-up catch-up                                 *)
(***************************************************************************)
FirstBad(rows) ==
    IF \E i \in 1..Len(rows) : ~HashValid(rows[i])
    THEN CHOOSE i \in 1..Len(rows) :
            ~HashValid(rows[i]) /\ \A j \in 1..(i - 1) : HashValid(rows[j])
    ELSE 0

\* variant: each row is checked and stored in turn, so the rows before the
\* first bad one are kept
PerformCatchUpSyncRowByRow(store, rep) ==
    IF rep.status = NetworkError \/ ~IsOk(rep.status)
    THEN [result |-> "error", store |-> store, count |-> 0]
    ELSE IF ~rep.success \/ ~rep.isArray
    THEN [result |-> "invalid_response", store |-> store, count |-> 0]
    ELSE IF FirstBad(rep.data) # 0
    THEN [result |-> "hash_mismatch",
          store |-> UpsertRows(store, SubSeq(rep.data, 1, FirstBad(rep.data) - 1)),
          count |-> 0]
    ELSE [result |-> "ok", store |-> UpsertRows(store, rep.data),
          count |-> Len(rep.data)]

\* variant: a body without success or without an array counts as an empty list
PerformCatchUpSyncInvalidAsEmpty(store, rep) ==
    IF rep.status = NetworkError \/ ~IsOk(rep.status)
    THEN [result |-> "error", store |-> store, count |-> 0]
    ELSE IF ~rep.success \/ ~rep.isArray
    THEN [result |-> "ok", store |-> store, count |-> 0]
    ELSE IF FirstBad(rep.data) # 0
    THEN [result |-> "hash_mismatch", store |-> store, count |-> 0]
    ELSE [result |-> "ok", store |-> UpsertRows(store, rep.data),
          count |-> Len(rep.data)]

\* fetchCredentialsFromIssuance + performCatchUpSync on the response rep:
\* the outcome, the resulting store and the returned count
PerformCatchUpSync(store, rep) ==
    IF rep.status = NetworkError
    THEN [result |-> "error", store |-> store, count |-> 0]
    ELSE IF ~IsOk(rep.status)
    THEN [result |-> "error", store |-> store, count |-> 0]
    ELSE IF ~rep.success \/ ~rep.isArray
    THEN [result |-> "invalid_response", store |-> store, count |-> 0]
    ELSE IF FirstBad(rep.data) # 0
    THEN [result |-> "hash_mismatch", store |-> store, count |-> 0]
    ELSE IF Len(rep.data) = 0
    THEN [result |-> "ok", store |-> store, count |-> 0]
    ELSE LET done == UpsertMany(store, rep.data)
         IN [result |-> "ok", store |-> done.store, count |-> done.count]

\* the verification process starts: initializeDatabase, then performCatchUpSync
\* reads the cursor and sends GET /internal/credentials
CatchUpStart ==
    /\ vphase = "offline"
    /\ cursor' = GetLatestIssuedAt(vstore)
    /\ vphase' = "fetching"
    /\ reply' = NoReply
    /\ UNCHANGED <<today, iSecret, istore, hpc, hcred, attempt, outcomes, sleeps,
                   response, vSecret, vstore, lastCatchUp,
                   issuedOffline>>
    /\ UNCHANGED supVars
    /\ UNCHANGED extVars

\* the issuance service answers the GET (listCredentials), the hashes of the
\* rows at positions bad arrive altered; or the request fails on the network
IssuanceReply(net, bad) ==
    /\ vphase = "fetching"
    /\ reply = NoReply
    /\ \/ /\ net = "neterr"
          /\ bad = {}
          /\ reply' = ListResponse(NetworkError, FALSE, FALSE, <<>>)
       \/ /\ net = "delivered"
          /\ \E rep \in ListCredentials(SyncKeyHeader(vSecret), cursor) :
                /\ bad \subseteq 1..Len(rep.data)
                /\ reply' = [rep EXCEPT !.data = Tamper(rep.data, bad)]
    /\ UNCHANGED <<today, iSecret, istore, hpc, hcred, attempt, outcomes, sleeps,
                   response, vSecret, vstore, vphase, cursor, lastCatchUp, issuedOffline>>
    /\ UNCHANGED supVars
    /\ UNCHANGED extVars

\* initializeDatabase rejects: the start-up routine logs and calls
\* process.exit(1)
DatabaseInitFails ==
    /\ vphase = "offline"
    /\ vphase' = "exited"
    /\ UNCHANGED <<today, iSecret, istore, hpc, hcred, attempt, outcomes, sleeps,
                   response, vSecret, vstore, cursor, reply, lastCatchUp,
                   issuedOffline>>
    /\ UNCHANGED supVars
    /\ UNCHANGED extVars

\* variant: a failed catch-up ends the process
CatchUpCompleteExitOnFailure ==
    /\ vphase = "fetching"
    /\ reply # NoReply
    /\ LET out == PerformCatchUpSync(vstore, reply)
       IN /\ vstore' = out.store
          /\ lastCatchUp' = [result |-> out.result, count |-> out.count,
                             rows |-> Len(reply.data),
                             bad |-> Cardinality({i \in 1..Len(reply.data) :
                                                     ~HashValid(reply.data[i])})]
          /\ vphase' = IF out.result = "ok" THEN "online" ELSE "exited"
    /\ reply' = NoReply
    /\ cursor' = NoCursor
    /\ UNCHANGED <<today, iSecret, istore, hpc, hcred, attempt, outcomes, sleeps,
                   response, vSecret,
                   issuedOffline>>
    /\ UNCHANGED supVars
    /\ UNCHANGED extVars

\* the response arrives: performCatchUpSync ends, the start-up routine logs the
\* outcome and calls app.listen
CatchUpComplete ==
    /\ vphase = "fetching"
    /\ reply # NoReply
    /\ LET out == PerformCatchUpSync(vstore, reply)
       IN /\ vstore' = out.store
          /\ lastCatchUp' = [result |-> out.result, count |-> out.count,
                             rows |-> Len(reply.data),
                             bad |-> Cardinality({i \in 1..Len(reply.data) :
                                                     ~HashValid(reply.data[i])})]
    /\ vphase' = "online"
    /\ reply' = NoReply
    /\ cursor' = NoCursor
    /\ UNCHANGED <<today, iSecret, istore, hpc, hcred, attempt, outcomes, sleeps,
                   response, vSecret,
                   issuedOffline>>
    /\ UNCHANGED supVars
    /\ UNCHANGED extVars

\* the verification process stops; its database file stays
VerificationStop ==
    /\ vphase = "online"
    /\ vphase' = "offline"
    /\ issuedOffline' = {}
    /\ lastCatchUp' = NoCatchUp
    /\ UNCHANGED <<today, iSecret, istore, hpc, hcred, attempt, outcomes, sleeps,
                   response, vSecret, vstore, cursor,
                   reply>>
    /\ UNCHANGED supVars
    /\ UNCHANGED extVars

SyncNext ==
    \/ NextDay
    \/ \E input \in Inputs : IssueRequest(input)
    \/ PushSkipped
    \/ PushSend
    \/ \E kind \in {"handled", "error500"} : VerificationHandlesPush(kind)
    \/ \E net \in {"rejects", "resolves"} : PushSettles(net)
    \/ PushWake
    \/ IssueRespond
    \/ CatchUpStart
    \/ \E net \in {"neterr", "delivered"} : \E bad \in SUBSET (1..MaxContents) :
          IssuanceReply(net, bad)
    \/ CatchUpComplete
    \/ VerificationStop

(***************************************************************************)
(* Verification service: requests of any client, responses of any peer     *)
(***************************************************************************)
\* no request served since the process started
NoOp == [op |-> "none", keyOk |-> TRUE, bodyOk |-> TRUE, hashOk |-> TRUE,
         status |-> 0, result |-> "none", since |-> NoCursor, count |-> 0,
         data |-> <<>>]

\* values of the x-internal-sync-key header: absent, the secret "k", another
Headers == Secrets \cup {"x"}

Issuers == {IssuerId, "worker-2"}

\* the way the hash of a JSON credential relates to its properties:
\* "valid"     the hash of the six properties
\* "tampered"  a hash of nothing
\* "extended"  the object has one more property, the hash covers all seven
WireVariants == {"valid", "tampered", "extended"}

\* a credential as JSON: id derived from content idc, the properties of
\* content c issued by issuer on day d
WireRow(idc, c, issuer, d, variant) ==
    LET six == [id |-> GenerateDeterministicId(idc), content |-> c,
                issuedBy |-> issuer, issuedAt |-> DateOnlyString(d)]
        seven == [id |-> six.id, content |-> c, issuedBy |-> issuer,
                  issuedAt |-> six.issuedAt, extra |-> 1]
    IN [id |-> six.id, content |-> c, issuedBy |-> issuer,
        issuedAt |-> six.issuedAt,
        hash |-> IF variant = "valid" THEN GenerateIntegrityHash(six)
                 ELSE IF variant = "extended" THEN GenerateIntegrityHash(seven)
                 ELSE TamperedHash,
        extra |-> IF variant = "extended" THEN 1 ELSE NoExtra]

\* a body that CredentialPayloadSchema rejects
InvalidBody == [id |-> NoId, content |-> 0, issuedBy |-> "none",
                issuedAt |-> <<0>>, hash |-> <<"none">>, extra |-> NoExtra]

\* no body: the last request was not a POST /api/verify
NoBody == [InvalidBody EXCEPT !.issuedBy = "absent"]

\* bodies of POST /internal/sync: credentials of the day whose id belongs to
\* their content
SyncBodies ==
    {InvalidBody} \cup
    {WireRow(c, c, IssuerId, today, v) : c \in Contents, v \in WireVariants}

\* bodies of POST /api/verify: the bodies of POST /internal/sync and the
\* credentials that differ from one of them in one property
VerifyBodies ==
    SyncBodies
    \cup {WireRow(idc, c, IssuerId, today, "valid") : idc \in Contents, c \in Contents}
    \cup {WireRow(c, c, i, today, "valid") : c \in Contents, i \in Issuers}
    \cup {WireRow(c, c, IssuerId, d, "valid") : c \in Contents, d \in Days}

\* the hash of the six properties, as syncCredential and verifyCredential
\* compute it with buildCanonicalPayload
SixHashOk(cred) == cred.hash = GenerateIntegrityHash(StripHash(cred))

\* POST /internal/sync from the request to the response
HandleSync(store, header, body) ==
    IF ~ValidateSyncKey(vSecret, header)
    THEN [status |-> 401, result |-> "unauthorized", store |-> store]
    ELSE IF ~SchemaOk(body)
    THEN [status |-> 400, result |-> "invalid_payload", store |-> store]
    ELSE LET res == SyncCredential(store, header, body)
         IN [status |-> res.status,
             result |-> IF res.status = 200 THEN "synchronized" ELSE "invalid_hash",
             store |-> res.store]

\* a client sends POST /internal/sync
SyncRequest(header, body) ==
    /\ vphase = "online"
    /\ LET res == HandleSync(vstore, header, body)
       IN /\ vstore' = res.store
          /\ lastOp' = [op |-> "sync",
                        keyOk |-> (vSecret = NoSecret \/ header = vSecret),
                        bodyOk |-> SchemaOk(body),
                        hashOk |-> SixHashOk(body),
                        status |-> res.status, result |-> res.result,
                        since |-> NoCursor, count |-> 0, data |-> <<>>]
    /\ lastBody' = NoBody
    /\ UNCHANGED <<today, iSecret, istore, hpc, hcred, attempt, outcomes, sleeps,
                   response, vSecret, vphase, cursor, reply, lastCatchUp,
                   issuedOffline>>
    /\ UNCHANGED <<supVars, cfgVars, raceVars, mainVars>>

\* variant: the hash of the stored record is not recomputed
VerifyCredentialTrustingRecord(store, body) ==
    IF ~SchemaOk(body)
    THEN [status |-> 400, result |-> "invalid_payload"]
    ELSE LET payload == ParsePayload(body)
             found == FindById(store, payload.id)
         IN IF found = {}
            THEN [status |-> 200, result |-> "not_found"]
            ELSE IF \E record \in found :
                       /\ record.content = payload.content
                       /\ record.issuedBy = payload.issuedBy
                       /\ record.issuedAt = payload.issuedAt
                       /\ record.hash = payload.hash
            THEN [status |-> 200, result |-> "valid"]
            ELSE [status |-> 200, result |-> "mismatch"]

\* verifyCredential: status and outcome
VerifyCredential(store, body) ==
    IF ~SchemaOk(body)
    THEN [status |-> 400, result |-> "invalid_payload"]
    ELSE LET payload == ParsePayload(body)
             found == FindById(store, payload.id)
         IN IF found = {}
            THEN [status |-> 200, result |-> "not_found"]
            ELSE LET record == CHOOSE r \in found : TRUE
                     fieldsMatch == /\ record.content = payload.content
                                    /\ record.issuedBy = payload.issuedBy
                                    /\ record.issuedAt = payload.issuedAt
                     hashValid ==
                         /\ record.hash = GenerateIntegrityHash(StripHash(record))
                         /\ payload.hash = GenerateIntegrityHash(StripHash(payload))
                         /\ record.hash = payload.hash
                 IN IF ~fieldsMatch \/ ~hashValid
                    THEN [status |-> 200, result |-> "mismatch"]
                    ELSE [status |-> 200, result |-> "valid"]

\* a client sends POST /api/verify
VerifyRequest(body) ==
    /\ vphase = "online"
    /\ LET res == VerifyCredential(vstore, body)
       IN lastOp' = [op |-> "verify", keyOk |-> TRUE, bodyOk |-> SchemaOk(body),
                     hashOk |-> SixHashOk(body),
                     status |-> res.status, result |-> res.result,
                     since |-> NoCursor, count |-> 0, data |-> <<>>]
    /\ lastBody' = body
    /\ UNCHANGED syncVars
    /\ UNCHANGED <<supVars, cfgVars, raceVars, mainVars>>

RECURSIVE BatchesFrom(_)
\* the arrays of credentials of the day with ids of the contents c.., at most
\* one each
BatchesFrom(c) ==
    IF c > MaxContents THEN {<<>>}
    ELSE LET later == BatchesFrom(c + 1)
         IN later \cup
            {<<WireRow(c, c, IssuerId, today, v)>> \o q :
                v \in WireVariants, q \in later}

\* what a GET of /internal/credentials can come back with when the peer is
\* any server: no response, an error status, a body without success, a body
\* whose data is no array, or an array of credentials
ForeignReplies ==
    {ListResponse(NetworkError, FALSE, FALSE, <<>>),
     ListResponse(500, FALSE, FALSE, <<>>),
     ListResponse(200, FALSE, TRUE, <<>>),
     ListResponse(200, FALSE, FALSE, <<>>),
     ListResponse(200, TRUE, FALSE, <<>>)}
    \cup {ListResponse(200, FALSE, TRUE, rows) : rows \in BatchesFrom(MaxContents)}
    \cup {ListResponse(200, TRUE, TRUE, rows) : rows \in BatchesFrom(1)}

\* the peer's response to the catch-up GET arrives
ForeignReply(rep) ==
    /\ vphase = "fetching"
    /\ reply = NoReply
    /\ reply' = rep
    /\ UNCHANGED <<today, iSecret, istore, hpc, hcred, attempt, outcomes, sleeps,
                   response, vSecret, vstore, vphase, cursor, lastCatchUp,
                   issuedOffline>>
    /\ UNCHANGED supVars
    /\ UNCHANGED extVars

\* the credentials a peer can put into the array of its response: of any
\* accepted input and any day, with the hash of their six properties or
\* another, issuedAt as a date or as the timestamp of the day's midnight
PullRows ==
    {WireRow(c, c, IssuerId, d, v) :
        c \in Contents, d \in Days, v \in {"valid", "tampered"}}
    \cup {LET row == MapRow(WireRow(c, c, IssuerId, d, "valid"))
          IN [row EXCEPT !.hash = GenerateIntegrityHash(Rest(row))] :
             c \in Contents, d \in Days}

\* the arrays of at most two credentials
PullBatches ==
    {<<>>} \cup {<<r>> : r \in PullRows} \cup {<<r, q>> : r \in PullRows, q \in PullRows}

\* the responses of a peer that answers GET /internal/credentials with an
\* array, or not at all
PullReplies ==
    {ListResponse(NetworkError, FALSE, FALSE, <<>>)}
    \cup {ListResponse(200, TRUE, TRUE, rows) : rows \in PullBatches}

\* the verification process ends; what it served is forgotten with it
ReceiverStop ==
    /\ vphase = "online"
    /\ vphase' = "offline"
    /\ lastOp' = NoOp
    /\ lastBody' = NoBody
    /\ lastCatchUp' = NoCatchUp
    /\ UNCHANGED <<today, iSecret, istore, hpc, hcred, attempt, outcomes, sleeps,
                   response, vSecret, vstore, cursor, reply, issuedOffline>>
    /\ UNCHANGED <<supVars, cfgVars, raceVars, mainVars>>

(***************************************************************************)
(* Both services, their internal endpoints called by any client            *)
(***************************************************************************)
\* the credential issueCredential creates for input on day d
IssuedCredential(input, d) ==
    LET fields == [id |-> GenerateDeterministicId(input), content |-> input,
                   issuedBy |-> IssuerId, issuedAt |-> DateOnlyString(d)]
    IN WithHash(fields, GenerateIntegrityHash(fields))

\* the issuance stores that requests of the days up to MaxDay leave behind:
\* at most one credential for an input
IssuableStores ==
    {st \in SUBSET {IssuedCredential(c, d) : c \in Contents, d \in Days} :
        \A c \in st : \A d \in st : c.id = d.id => c = d}

\* values of the since query parameter
SinceParams ==
    {NoCursor, BlankSince, InvalidSince}
    \cup {DateOnlyString(d) : d \in Days}
    \cup {ToISOString(<<d, 1>>) : d \in Days}

\* a client sends GET /internal/credentials to the issuance service
ListRequest(header, sinceParam) ==
    /\ \E res \in ListCredentials(header, sinceParam) :
          lastOp' = [op |-> "list",
                     keyOk |-> (iSecret = NoSecret \/ header = iSecret),
                     bodyOk |-> sinceParam # InvalidSince,
                     hashOk |-> TRUE,
                     status |-> res.status,
                     result |-> IF res.success THEN "listed" ELSE "rejected",
                     since |-> sinceParam,
                     count |-> res.count,
                     data |-> res.data]
    /\ lastBody' = NoBody
    /\ UNCHANGED syncVars
    /\ UNCHANGED <<supVars, cfgVars, raceVars, mainVars>>

(***************************************************************************)
(* Issuance service: two workers on one store                              *)
(***************************************************************************)
Workers == 1..2

\* a handler that is not between its duplicate check and its response
HandlerIdle == [at |-> "idle", cred |-> NoCred]

\* the duplicate id makes the INSERT fail: the primary key rejects the row
InsertConflicts(store, cred) == FindById(store, cred.id) # {}

\* the status the error middleware gives an error that is neither a ZodError
\* nor an AppError, as the error of a failed INSERT
InsertErrorStatus == 500

\* issueCredential of worker w up to its duplicate check: parse, id, findById,
\* and the credential it is about to insert
RaceCheck(w, input) ==
    /\ rpc[w].at = "idle"
    /\ IF input \notin Contents
       THEN /\ rres' = [rres EXCEPT ![w] = [status |-> 400, id |-> NoId]]
            /\ UNCHANGED rpc
       ELSE LET credentialId == GenerateDeterministicId(input)
                withoutHash == BuildCredentialPayload(input, credentialId)
                credential == WithHash(withoutHash, GenerateIntegrityHash(withoutHash))
            IN IF FindById(istore, credentialId) # {}
               THEN /\ rres' = [rres EXCEPT ![w] = [status |-> 409, id |-> credentialId]]
                    /\ UNCHANGED rpc
               ELSE /\ rpc' = [rpc EXCEPT ![w] = [at |-> "checked", cred |-> credential]]
                    /\ rres' = [rres EXCEPT ![w] = NoResponse]
    /\ UNCHANGED <<syncVars, supVars, cfgVars, epVars, mainVars>>

\* credentialModel.create of worker w: the INSERT stores the row, or fails on
\* the primary key and the handler's catch passes the error to the middleware
RaceCreate(w) ==
    /\ rpc[w].at = "checked"
    /\ IF InsertConflicts(istore, rpc[w].cred)
       THEN /\ rres' = [rres EXCEPT ![w] = [status |-> InsertErrorStatus,
                                            id |-> rpc[w].cred.id]]
            /\ rpc' = [rpc EXCEPT ![w] = HandlerIdle]
            /\ UNCHANGED istore
       ELSE /\ istore' = Create(istore, rpc[w].cred)
            /\ rpc' = [rpc EXCEPT ![w].at = "created"]
            /\ UNCHANGED rres
    /\ UNCHANGED <<today, iSecret, hpc, hcred, attempt, outcomes, sleeps,
                   response, vSecret, vstore, vphase, cursor, reply, lastCatchUp,
                   issuedOffline>>
    /\ UNCHANGED <<supVars, cfgVars, epVars, mainVars>>

\* the rest of the handler of worker w: the push, which finds no verification
\* service here and gives up after its attempts, then res.status(201)
RaceRespond(w) ==
    /\ rpc[w].at = "created"
    /\ vphase = "offline"
    /\ rres' = [rres EXCEPT ![w] = [status |-> 201, id |-> rpc[w].cred.id]]
    /\ rpc' = [rpc EXCEPT ![w] = HandlerIdle]
    /\ UNCHANGED <<syncVars, supVars, cfgVars, epVars, mainVars>>

\* the clock of the issuance service reaches the next day
RaceNextDay ==
    /\ today < MaxDay
    /\ today' = today + 1
    /\ UNCHANGED <<iSecret, istore, hpc, hcred, attempt, outcomes, sleeps,
                   response, vSecret, vstore, vphase, cursor, reply, lastCatchUp,
                   issuedOffline>>
    /\ UNCHANGED <<supVars, extVars>>

RaceNext ==
    \/ RaceNextDay
    \/ \E w \in Workers : \E input \in Inputs : RaceCheck(w, input)
    \/ \E w \in Workers : RaceCreate(w)
    \/ \E w \in Workers : RaceRespond(w)

(***************************************************************************)
(* Process configuration: getWorkerCount                                   *)
(***************************************************************************)
\* process.env.WORKER_COUNT is undefined
Unset == <<"unset">>

\* getWorkerCount has not run
NotCalled == 0

\* the characters of the values of WORKER_COUNT
Chars == {" ", "-", "0", "1", "2", "a"}

Digits == {"0", "1", "2"}

DigitValue(ch) == IF ch = "0" THEN 0 ELSE IF ch = "1" THEN 1 ELSE 2

RECURSIVE SeqsUpTo(_)
\* the strings over Chars of length at most n
SeqsUpTo(n) ==
    IF n = 0 THEN {<<>>}
    ELSE LET shorter == SeqsUpTo(n - 1)
         IN shorter \cup {Append(q, ch) : q \in shorter, ch \in Chars}

EnvValues == {Unset} \cup SeqsUpTo(MaxEnvLen)

RECURSIVE TrimStart(_)
TrimStart(str) ==
    IF str # <<>> /\ Head(str) = " " THEN TrimStart(Tail(str)) ELSE str

RECURSIVE TrimEnd(_)
TrimEnd(str) ==
    IF str # <<>> /\ str[Len(str)] = " "
    THEN TrimEnd(SubSeq(str, 1, Len(str) - 1))
    ELSE str

\* String.prototype.trim
Trim(str) == TrimEnd(TrimStart(str))

RECURSIVE DigitPrefix(_)
\* the longest prefix of decimal digits
DigitPrefix(str) ==
    IF str # <<>> /\ Head(str) \in Digits
    THEN <<Head(str)>> \o DigitPrefix(Tail(str))
    ELSE <<>>

RECURSIVE DecimalValue(_)
DecimalValue(digits) ==
    IF digits = <<>> THEN 0
    ELSE 10 * DecimalValue(SubSeq(digits, 1, Len(digits) - 1))
            + DigitValue(digits[Len(digits)])

\* Number.parseInt(str, 10): white space, an optional sign, then the longest
\* run of digits; NaN when there is no digit at that place
ParseInt(str) ==
    LET body == TrimStart(str)
        negative == body # <<>> /\ Head(body) = "-"
        digits == DigitPrefix(IF negative THEN Tail(body) ELSE body)
    IN IF digits = <<>>
       THEN [nan |-> TRUE, value |-> 0]
       ELSE [nan |-> FALSE,
             value |-> IF negative THEN 0 - DecimalValue(digits)
                       ELSE DecimalValue(digits)]

\* variant: the count is capped at the number of CPUs
GetWorkerCountCapped(env, cpus) ==
    LET workerCountEnvTrimmed == IF env = Unset THEN <<>> ELSE Trim(env)
        parsed == ParseInt(workerCountEnvTrimmed)
    IN IF workerCountEnvTrimmed = <<>> THEN [count |-> 1, warned |-> 0]
       ELSE IF parsed.nan \/ parsed.value < 1 THEN [count |-> 1, warned |-> 1]
       ELSE IF parsed.value > cpus THEN [count |-> cpus, warned |-> 1]
       ELSE [count |-> parsed.value, warned |-> 0]

\* getWorkerCount: the returned count and the number of warnings logged
GetWorkerCount(env, cpus) ==
    LET workerCountEnvTrimmed == IF env = Unset THEN <<>> ELSE Trim(env)
        parsed == ParseInt(workerCountEnvTrimmed)
    IN IF workerCountEnvTrimmed = <<>> THEN [count |-> 1, warned |-> 0]
       ELSE IF parsed.nan \/ parsed.value < 1 THEN [count |-> 1, warned |-> 1]
       ELSE IF parsed.value > cpus THEN [count |-> parsed.value, warned |-> 1]
       ELSE [count |-> parsed.value, warned |-> 0]

\* the process starts with some environment on some host
ConfigInit ==
    /\ workerCountEnv \in EnvValues
    /\ cpuCount \in 1..MaxCpus
    /\ workerCountOut = NotCalled
    /\ warnings = 0

\* the state of the configuration in the specifications that do not read it
ConfigIdle ==
    /\ workerCountEnv = Unset
    /\ cpuCount = 1
    /\ workerCountOut = NotCalled
    /\ warnings = 0

\* main / setupMaster call getWorkerCount()
GetWorkerCountCall ==
    /\ workerCountOut = NotCalled
    /\ LET out == GetWorkerCount(workerCountEnv, cpuCount)
       IN /\ workerCountOut' = out.count
          /\ warnings' = out.warned
    /\ UNCHANGED <<workerCountEnv, cpuCount>>
    /\ UNCHANGED <<supVars, syncVars, epVars, raceVars, mainVars>>

(***************************************************************************)
(* Process start: the main execution logic and startWorker                 *)
(***************************************************************************)
\* variant: the supervisor is set up for every worker count
UseSupervisorAlways(workerCount, primaryProcess) ==
    workerCount >= 1 /\ primaryProcess

\* main: workerCount > 1 and (cluster.isPrimary || cluster.isMaster)
UseSupervisor(workerCount, primaryProcess) ==
    workerCount > 1 /\ primaryProcess

\* notifyReady in the process itself: the number of messages process.send
\* is called with (cluster.isWorker && process.send)
ProcessNotifyReady == IF ~isPrimary THEN 1 ELSE 0

\* no setupMaster has run in the process: no worker, no handler, no timer
NoSupervisor ==
    /\ expectedWorkers = 0
    /\ onWorkerReady = FALSE
    /\ readyWorkers = 0
    /\ readyCalls = 0
    /\ nextWorkerId = 1
    /\ wstate = [w \in WorkerIds |-> "none"]
    /\ listener = [w \in WorkerIds |-> "none"]
    /\ stopsSent = [w \in WorkerIds |-> 0]
    /\ inbox = {}
    /\ exitEvents = {}
    /\ primary = "none"
    /\ signals = 0
    /\ timers = <<>>
    /\ elapsed = 0
    /\ forceKilled = {}
    /\ sentReady = {}

\* the process is started with some environment on some host; a worker
\* process exists only when a primary with a count above 1 has forked it, and
\* it inherits the environment of that primary
MainInit ==
    /\ workerCountEnv \in EnvValues
    /\ cpuCount \in 1..MaxCpus
    /\ GetWorkerCount(workerCountEnv, cpuCount).count <= MaxWorkers
    /\ workerCountOut = NotCalled
    /\ warnings = 0
    /\ isPrimary \in BOOLEAN
    /\ isPrimary \/ GetWorkerCount(workerCountEnv, cpuCount).count > 1
    /\ mode = "unstarted"
    /\ sent = 0
    /\ NoSupervisor

\* the main execution logic of index.ts: setupMaster('Issuance Service') in
\* the primary of a cluster (which calls getWorkerCount once more and forks
\* the workers), startWorker() in every other process
Main ==
    /\ mode = "unstarted"
    /\ LET out == GetWorkerCount(workerCountEnv, cpuCount)
           workerCount == out.count
       IN /\ workerCountOut' = workerCount
          /\ IF UseSupervisor(workerCount, isPrimary)
             THEN /\ mode' = "supervisor"
                  /\ warnings' = 2 * out.warned
                  /\ expectedWorkers' = workerCount
                  /\ nextWorkerId' = workerCount + 1
                  /\ wstate' = [w \in WorkerIds |->
                                   IF w <= workerCount THEN "starting" ELSE "none"]
                  /\ listener' = [w \in WorkerIds |->
                                     IF w <= workerCount THEN InitialListener
                                     ELSE "none"]
                  /\ primary' = "running"
             ELSE /\ mode' = "starting"
                  /\ warnings' = out.warned
                  /\ UNCHANGED <<expectedWorkers, nextWorkerId, wstate,
                                 listener, primary>>
    /\ UNCHANGED <<onWorkerReady, readyWorkers, readyCalls, stopsSent, inbox,
                   exitEvents, signals, timers, elapsed, forceKilled, sentReady>>
    /\ UNCHANGED <<workerCountEnv, cpuCount, isPrimary, sent>>
    /\ UNCHANGED <<syncVars, epVars, raceVars>>

\* startWorker: await initializeDatabase() resolves
InitializeDatabaseOk ==
    /\ mode = "starting"
    /\ mode' = "initialized"
    /\ UNCHANGED <<isPrimary, sent>>
    /\ UNCHANGED <<supVars, syncVars, cfgVars, epVars, raceVars>>

\* variant: the worker reports ready before it gives up
InitializeDatabaseFailsAfterReady ==
    /\ mode = "starting"
    /\ mode' = "exited 1"
    /\ sent' = sent + ProcessNotifyReady
    /\ UNCHANGED isPrimary
    /\ UNCHANGED <<supVars, syncVars, cfgVars, epVars, raceVars>>

\* startWorker: initializeDatabase() rejects; the catch logs 'Failed to start
\* worker' and calls process.exit(1)
InitializeDatabaseFails ==
    /\ mode = "starting"
    /\ mode' = "exited 1"
    /\ UNCHANGED <<isPrimary, sent>>
    /\ UNCHANGED <<supVars, syncVars, cfgVars, epVars, raceVars>>

\* startWorker: app.listen has bound the port and its callback runs
\* notifyReady()
AppListening ==
    /\ mode = "initialized"
    /\ mode' = "listening"
    /\ sent' = sent + ProcessNotifyReady
    /\ UNCHANGED isPrimary
    /\ UNCHANGED <<supVars, syncVars, cfgVars, epVars, raceVars>>

(***************************************************************************)
(* Properties of the supervisor (checked under SupervisorSpec)             *)
(***************************************************************************)
IsSuccess(status) == status \in 200..299

\* every worker of the cluster is alive and ready, nothing is in flight
AllReadySettled ==
    /\ signals = 0
    /\ primary = "running"
    /\ inbox = {}
    /\ exitEvents = {}
    /\ Cardinality(LiveWorkers) = expectedWorkers
    /\ \A w \in LiveWorkers : wstate[w] = "ready"

\* C1: with a cluster-ready callback, the callback is invoked exactly once for
\* every order of ready messages and worker exits (at most once at any time,
\* once when all N live workers are ready and every message is handled), and
\* never before N workers have sent their ready message.
C1_ReadyBarrierExactlyOnce ==
    onWorkerReady =>
        /\ readyCalls <= 1
        /\ readyCalls >= 1 => Cardinality(sentReady) >= expectedWorkers
        /\ AllReadySettled => readyCalls = 1

HandledExits == {w \in Forked : wstate[w] = "exited" /\ w \notin exitEvents}

\* C2: while no shutdown is in progress every handled worker exit has caused
\* exactly one fork, the live workers plus the exits not yet handled are N, so
\* the live workers never exceed N and are N again once each exit is handled.
C2_RespawnRestoresCount ==
    signals = 0 =>
        /\ nextWorkerId - 1 = expectedWorkers + Cardinality(HandledExits)
        /\ Cardinality(LiveWorkers) + Cardinality(exitEvents) = expectedWorkers
        /\ Cardinality(LiveWorkers) <= expectedWorkers

\* C2 witness: a replacement worker has exited too and has been replaced
C2_Witness ==
    /\ signals = 0
    /\ exitEvents = {}
    /\ Cardinality(LiveWorkers) = expectedWorkers
    /\ \E w \in HandledExits : w > expectedWorkers

\* C3: once more than the grace period of 10 s has passed since the first
\* termination signal, the primary and every worker have terminated.
C3_TerminatedByDeadline ==
    elapsed > ShutdownGraceMs => primary = "exited" /\ LiveWorkers = {}

\* C3 witness: a worker that got the stop request was still alive at the
\* deadline and ended with the forced exit
C3_Witness ==
    /\ elapsed > ShutdownGraceMs
    /\ primary = "exited"
    /\ \E w \in forceKilled : stopsSent[w] >= 1

\* C4: any number of termination signals produces one shutdown sequence: one
\* deadline timer and one stop request per worker.
C4_ShutdownIdempotent ==
    /\ Len(timers) <= 1
    /\ \A w \in WorkerIds : stopsSent[w] <= 1

\* C20: once a termination signal has started the shutdown sequence, no
\* worker is forked: a worker that exits after it was asked to stop is not
\* replaced.
C20_NoRespawnAfterShutdown ==
    [][signals >= 1 =>
          /\ nextWorkerId' = nextWorkerId
          /\ \A w \in WorkerIds : wstate'[w] = "starting" => wstate[w] = "starting"]_vars

\* C21: the primary takes the forced exit of the deadline timer only when a
\* worker is still alive at the deadline; when every worker has exited before
\* it, the shutdown ends without the forced exit.
C21_ForceOnlyWhenWorkersRemain ==
    primary = "exited" => forceKilled # {}

\* C22: the ready message of every worker, an original one or a replacement
\* forked by the exit handler, increments the ready counter when the primary
\* handles it, and invokes the callback when the counter reaches N.
C22_ReplacementCountsAsReady ==
    [][\A w \in WorkerIds :
          (primary = "running" /\ w \in inbox /\ inbox' = inbox \ {w}) =>
              /\ readyWorkers' = readyWorkers + 1
              /\ (readyWorkers' = expectedWorkers /\ onWorkerReady) =>
                    readyCalls' = readyCalls + 1]_vars

\* C27: with a worker count of 1 the service runs in the process itself: no
\* worker is forked, no supervisor handler or timer exists and no ready message
\* is sent; the supervisor exists exactly when the count is above 1 and the
\* process is the primary.
C27_SingleWorkerInProcess ==
    mode # "unstarted" =>
        /\ workerCountOut = 1 =>
               /\ mode \in {"starting", "initialized", "listening", "exited 1"}
               /\ NoSupervisor
               /\ sent = 0
        /\ mode = "supervisor" <=> (workerCountOut > 1 /\ isPrimary)
        /\ mode # "supervisor" => NoSupervisor

\* C27 witness: a single-worker service is listening
C27_Witness ==
    workerCountOut = 1 /\ mode = "listening" /\ isPrimary

\* C30: a process sends ready at most once, and only once its database is
\* initialised and its listener bound; a failed initialisation ends it with
\* code 1 and no ready message.
C30_ReadyOnceAfterListen ==
    /\ sent <= 1
    /\ sent = 1 => mode = "listening"
    /\ mode = "exited 1" => sent = 0

\* C30 witness: a forked worker is listening and has sent its ready message
C30_Witness ==
    ~isPrimary /\ mode = "listening" /\ sent = 1

\* the issuance handler leaves its idle position: a push sync starts
PushStarts == hpc = "idle" /\ hpc' # "idle"

\* C28: a push starts only for a credential the same step has persisted, every
\* persisted credential starts one, and a request answered 400 or 409 starts
\* none and stores nothing.
C28_PushOnlyAfterPersist ==
    [][/\ PushStarts => /\ hcred' \in istore'
                        /\ FindById(istore, hcred'.id) = {}
                        /\ attempt' = 0
       /\ istore' # istore => PushStarts /\ istore' = istore \cup {hcred'}
       /\ (hpc = "idle" /\ response'.status \in {400, 409}) =>
              (hpc' = "idle" /\ istore' = istore)]_vars

\* C28 witness: a duplicate was rejected while the store holds the credential
\* and no push is running
C28_Witness ==
    /\ hpc = "idle"
    /\ response.status = 409
    /\ FindById(istore, response.id) # {}
    /\ Len(outcomes) = 0

\* the workers that are alive and ready
ReadyAlive == {w \in Forked : wstate[w] = "ready"}

\* C29: when the cluster-ready callback fires, N workers are alive and ready;
\* and the ready counter never exceeds N.
C29_CallbackMeansAllReady ==
    /\ [][readyCalls' > readyCalls =>
             Cardinality(ReadyAlive') = expectedWorkers]_vars
    /\ [](readyWorkers <= expectedWorkers)

\* C29, the part on the counter alone
C29_CounterBounded == readyWorkers <= expectedWorkers

\* C26: when a fork fails, in the fork loop or in the exit handler, the
\* primary keeps running.
C26_ForkFailureKeepsPrimary ==
    [][(\/ \E w \in WorkerIds : \E how \in ForkFailures : OnExitForkFails(w, how)
        \/ \E result \in [1..expectedWorkers -> ForkResults] :
              ForkLoopFails(result)) => primary' = "running"]_vars

(***************************************************************************)
(* Properties of the push sync (checked under Spec)                        *)
(***************************************************************************)
PushReturned == hcred # NoCred /\ hpc \in {"synced", "idle"}

AllAttemptsFailed ==
    /\ Len(outcomes) = 3
    /\ \A i \in 1..Len(outcomes) : ~IsSuccess(outcomes[i])

\* a POST of the push is on its way or its response is
PostInFlight == hpc \notin {"idle", "syncing", "sleeping", "synced"}

\* the attempts of a push so far: every counted attempt but the one in flight
\* has its outcome, there are at most three, and only the last can be a success
AttemptsInOrder ==
    /\ attempt = Len(outcomes) + (IF PostInFlight THEN 1 ELSE 0)
    /\ attempt <= 3
    /\ \A i \in 1..(Len(outcomes) - 1) : ~IsSuccess(outcomes[i])
    /\ (hpc \in {"syncing", "sleeping"} \/ PostInFlight) =>
          /\ Len(outcomes) < 3
          /\ \A i \in 1..Len(outcomes) : ~IsSuccess(outcomes[i])

\* C5 as stated: the number of POST attempts of a push is the position of the
\* first 2xx response if there is one among the first three attempts, and 3
\* otherwise; network errors and non-2xx statuses (401 included) are failed
\* attempts.
C5_PushAttemptCount ==
    /\ AttemptsInOrder
    /\ PushReturned =>
          /\ Len(outcomes) >= 1
          /\ IsSuccess(outcomes[Len(outcomes)]) \/ Len(outcomes) = 3

\* C5 (amended): as stated when the runtime has a fetch API; without one the
\* push returns with no attempt at all.
C5_PushAttemptCountOrSkipped ==
    /\ AttemptsInOrder
    /\ PushReturned =>
          \/ attempt = 0 /\ outcomes = <<>>
          \/ /\ Len(outcomes) >= 1
             /\ IsSuccess(outcomes[Len(outcomes)]) \/ Len(outcomes) = 3

\* C5 witness: a push has returned after three failures, a 401 among them
C5_Witness ==
    /\ PushReturned
    /\ AllAttemptsFailed
    /\ \E i \in 1..3 : outcomes[i] = 401
    /\ \E i \in 1..3 : outcomes[i] = NetworkError

\* C6: when all three attempts have failed the push has returned to the
\* handler, the credential is in the issuance store, and the response of the
\* request is 201 with that credential.
C6_FailedPushKeepsIssuance ==
    AllAttemptsFailed =>
        /\ hpc \in {"synced", "idle"}
        /\ hcred \in istore
        /\ hpc = "idle" => response = [status |-> 201, id |-> hcred.id]

\* C6 witness: 201 was answered after three failed attempts
C6_Witness ==
    /\ AllAttemptsFailed
    /\ hpc = "idle"
    /\ response.status = 201
    /\ hcred \in istore

\* C7 (as stated): the response does not wait for the push: once the
\* credential is persisted the success response is sent, whether the push
\* attempts and their backoff waits are still running or have ended.
C7_ResponseDoesNotWaitForPush ==
    (hcred # NoCred /\ hpc \in {"syncing", "sleeping", "synced"}) =>
        response = [status |-> 201, id |-> hcred.id]

\* C7 (amended): the 201 response is sent only after the push has returned,
\* by a 2xx response, after the third failed attempt, or without an attempt
\* when the runtime has no fetch API.
C7_ResponseAfterPushReturns ==
    response.status = 201 =>
        /\ hpc = "idle"
        /\ response.id = hcred.id
        /\ \/ attempt = 0 /\ outcomes = <<>>
           \/ /\ Len(outcomes) >= 1
              /\ IsSuccess(outcomes[Len(outcomes)]) \/ AllAttemptsFailed

\* C7 witness: the response was sent after two backoff waits
C7_Witness ==
    /\ response.status = 201
    /\ Len(sleeps) = 2
    /\ AllAttemptsFailed

\* C23 as stated: the wait that precedes attempt k is k times the base delay,
\* 2 x base before attempt 2 and 3 x base before attempt 3.
C23_WaitByNextAttempt ==
    \A i \in 1..Len(sleeps) : sleeps[i] = BASE_RETRY_DELAY_MS * (i + 1)

\* C23: the waits of a push are linear in the number of the attempt that has
\* just failed: the wait after attempt k, which precedes attempt k + 1, is k
\* times the base delay, base before attempt 2 and 2 x base before attempt 3;
\* no wait follows the last attempt.
C23_WaitByFailedAttempt ==
    /\ Len(sleeps) <= MAX_SYNC_ATTEMPTS - 1
    /\ \A i \in 1..Len(sleeps) :
          /\ sleeps[i] = BASE_RETRY_DELAY_MS * i
          /\ Len(outcomes) >= i
          /\ ~IsSuccess(outcomes[i])
    /\ Len(sleeps) =
          Cardinality({i \in 1..(MAX_SYNC_ATTEMPTS - 1) :
                          i <= Len(outcomes) /\ ~IsSuccess(outcomes[i])})

\* C23 witness: the third attempt was made after the two waits and succeeded
C23_Witness ==
    /\ Len(sleeps) = 2
    /\ Len(outcomes) = 3
    /\ IsSuccess(outcomes[3])

(***************************************************************************)
(* Properties of the catch-up sync (checked under PullSpec and Spec)       *)
(***************************************************************************)
CatchUpCompletes == vphase = "fetching" /\ reply # NoReply /\ vphase' = "online"

HasBadRow(rows) == \E i \in 1..Len(rows) : ~HashValid(rows[i])

\* C8: a catch-up whose response holds a record with a wrong hash fails and
\* leaves the verification store as it was, wherever the bad record stands.
C8_BadHashAbortsBatch ==
    [][(CatchUpCompletes /\ HasBadRow(reply.data)) =>
          (vstore' = vstore /\ lastCatchUp'.result = "hash_mismatch")]_vars

\* C8 witness: a failed batch held valid records and a bad one
C8_Witness ==
    /\ lastCatchUp.result = "hash_mismatch"
    /\ lastCatchUp.bad >= 1
    /\ lastCatchUp.rows > lastCatchUp.bad

\* C9: a catch-up started with cursor T, the greatest issuedAt of the local
\* store, applies only records with issuedAt > T: every record it adds is later
\* than T, and a record of the response that is not later than T leaves the
\* stored record of its id as it was.
C9_CatchUpAppliesOnlyNewer ==
    [][(CatchUpCompletes /\ cursor # NoCursor) =>
          /\ \A c \in vstore' \ vstore :
                After(DateParse(c.issuedAt), DateParse(cursor))
          /\ \A i \in 1..Len(reply.data) :
                ~After(DateParse(reply.data[i].issuedAt), DateParse(cursor)) =>
                    FindById(vstore', reply.data[i].id) =
                        FindById(vstore, reply.data[i].id)]_vars

\* C10: after a start of the verification service whose catch-up succeeded,
\* every credential issued while the service was offline is in its store.
C10_CatchUpFillsDowntimeGap ==
    (vphase = "online" /\ lastCatchUp.result = "ok") =>
        issuedOffline \subseteq Ids(vstore)

\* C19: a catch-up asks the peer with since equal to the greatest issuedAt of
\* the local store, and without since when the store is empty; when it
\* succeeds, the store is the old one with every returned credential written
\* over the record of its id, and the returned count is the number of
\* credentials of the response, 0 for an empty one.
C19_CatchUpCursorAndCount ==
    [][/\ (vphase = "offline" /\ vphase' = "fetching") =>
             IF vstore = {} THEN cursor' = NoCursor
             ELSE /\ \E c \in vstore : c.issuedAt = cursor'
                  /\ \A c \in vstore : c.issuedAt[1] <= cursor'[1]
       /\ (CatchUpCompletes /\ lastCatchUp'.result = "ok") =>
             LET n == Len(reply.data)
                 ids == {reply.data[i].id : i \in 1..n}
                 LastWith(id) ==
                     reply.data[CHOOSE i \in 1..n :
                                   /\ reply.data[i].id = id
                                   /\ \A j \in (i + 1)..n : reply.data[j].id # id]
             IN /\ vstore' = {c \in vstore : c.id \notin ids}
                               \cup {Columns(LastWith(id)) : id \in ids}
                /\ lastCatchUp'.count = Len(reply.data)
                /\ reply.data = <<>> => lastCatchUp'.count = 0]_vars

\* C19 witness: a catch-up was started on a store that holds credentials of
\* different days; its cursor is the later day
C19_Witness ==
    /\ vphase = "fetching"
    /\ cursor # NoCursor
    /\ \E c \in vstore : c.issuedAt # cursor

(***************************************************************************)
(* Properties of the receiving endpoints (checked under ReceiverSpec)      *)
(***************************************************************************)
\* C11: after any sequence of sync requests and catch-ups every credential of
\* the verification store has the hash of its six properties, and a sync
\* request whose hash is not that hash is answered 400.
C11_VerifyOnReceipt ==
    /\ \A c \in vstore : SixHashOk(c)
    /\ (lastOp.op = "sync" /\ lastOp.keyOk /\ lastOp.bodyOk /\ ~lastOp.hashOk)
          => lastOp.status = 400

\* C18: a catch-up whose response has a 2xx status and a body with
\* success=false or with data that is no array fails as an invalid response,
\* and one whose response has another status fails as well; in each case the
\* verification store stays as it was.
C18_InvalidResponseFails ==
    [][CatchUpCompletes =>
          /\ (reply.status \in 200..299 /\ (~reply.success \/ ~reply.isArray)) =>
                (lastCatchUp'.result = "invalid_response" /\ vstore' = vstore)
          /\ (reply.status # NetworkError /\ reply.status \notin 200..299) =>
                (lastCatchUp'.result = "error" /\ vstore' = vstore)]_vars

\* C18 witness: a response with success=false that carried a valid credential
\* failed the catch-up and the credential is not in the store
C18_Witness ==
    /\ lastCatchUp.result = "invalid_response"
    /\ lastCatchUp.rows >= 1
    /\ lastCatchUp.bad = 0
    /\ vstore = {}

\* C24: when the response of the start-up catch-up has arrived, whatever it
\* is (no response, an error status, an invalid body, a wrong hash), the
\* start-up routine records the outcome and the service listens; the process
\* exits only before the catch-up, when the database cannot be initialized.
C24_StartsAfterFailedCatchUp ==
    [][/\ (vphase = "fetching" /\ reply # NoReply /\ vphase' # "fetching") =>
             (vphase' = "online" /\ lastCatchUp'.result # "none")
       /\ (vphase' = "exited" /\ vphase # "exited") => DatabaseInitFails]_vars

\* C24 witness: the service answered a verification after a catch-up that
\* failed on a wrong hash
C24_Witness ==
    /\ vphase = "online"
    /\ lastCatchUp.result = "hash_mismatch"
    /\ lastOp.op = "verify"

\* C15: a POST /api/verify with a well-formed payload is answered 200; valid
\* exactly when the store holds a record with the payload's id whose
\* properties and hash equal the payload's and whose hash is the hash of its
\* own six properties; not found exactly when no record has the id; mismatch
\* in every other case; and the store is the same before and after.
C15_VerifyAnswers ==
    [][(lastOp'.op = "verify" /\ lastBody' # InvalidBody
          /\ lastBody'.content \in PayloadContents) =>
          LET recs == {r \in vstore : r.id = lastBody'.id}
              same == {r \in recs : /\ r.content = lastBody'.content
                                    /\ r.issuedBy = lastBody'.issuedBy
                                    /\ r.issuedAt = lastBody'.issuedAt
                                    /\ r.hash = lastBody'.hash
                                    /\ r.hash = GenerateIntegrityHash(StripHash(r))}
          IN /\ vstore' = vstore
             /\ lastOp'.status = 200
             /\ lastOp'.result =
                   IF recs = {} THEN "not_found"
                   ELSE IF same # {} THEN "valid" ELSE "mismatch"]_vars

\* C15 witness: a payload equal to a stored record in every property and in
\* its hash was answered mismatch, because the stored hash is not the hash of
\* the record's properties
C15_Witness ==
    /\ lastOp.op = "verify"
    /\ lastOp.result = "mismatch"
    /\ \E r \in vstore : /\ r.id = lastBody.id
                         /\ r.content = lastBody.content
                         /\ r.issuedBy = lastBody.issuedBy
                         /\ r.issuedAt = lastBody.issuedAt
                         /\ r.hash = lastBody.hash

EndpointIdle == lastOp = NoOp /\ lastBody = NoBody

(***************************************************************************)
(* Properties of issuance (checked under Spec)                             *)
(***************************************************************************)
\* C13: a request for an input that was issued before is answered 409 and
\* leaves the issuance store as it is; a request for a new input adds one
\* record for it; the store never holds two records for one input; and no
\* request modifies or removes a record once it is stored.
C13_DuplicateIssuanceRejected ==
    [][/\ istore \subseteq istore'
       /\ \A c \in istore' : \A d \in istore' : c.content = d.content => c = d
       /\ \A input \in Contents :
             IssueRequest(input) =>
                IF \E c \in istore : c.content = input
                THEN /\ response'.status = 409
                     /\ istore' = istore
                ELSE /\ Cardinality(istore') = Cardinality(istore) + 1
                     /\ \E c \in istore' \ istore : c.content = input]_vars

\* C13 witness: the second request came a day after the first and was
\* answered 409; the record of the first is in the store
C13_Witness ==
    /\ response.status = 409
    /\ hpc = "idle"
    /\ \E c \in istore : c.id = response.id /\ c.issuedAt # DateOnlyString(today)

(***************************************************************************)
(* Properties of concurrent issuance (checked under RaceSpec)              *)
(***************************************************************************)
\* C12: when two requests for one input both pass the duplicate check, one
\* insert succeeds, the stored record stays, and the other request is answered
\* 409: no request is answered with a generic failure, and the store holds one
\* record per id.
C12_RaceLoserGetsConflict ==
    /\ \A w \in Workers : rres[w].status \in {0, 201, 400, 409}
    /\ \A c \in istore : \A d \in istore : c.id = d.id => c = d

\* two idle issuance workers
RaceIdle ==
    /\ rpc = [w \in Workers |-> HandlerIdle]
    /\ rres = [w \in Workers |-> NoResponse]

ReceiverInit ==
    /\ \E vs \in Secrets : SyncInitWith(NoSecret, vs)
    /\ SupInitWith(2, TRUE)
    /\ ConfigIdle
    /\ EndpointIdle
    /\ RaceIdle

ReceiverNext ==
    \/ CatchUpStart
    \/ \E rep \in ForeignReplies : ForeignReply(rep)
    \/ CatchUpComplete
    \/ ReceiverStop
    \/ DatabaseInitFails
    \/ \E header \in Headers : \E body \in SyncBodies : SyncRequest(header, body)
    \/ \E body \in VerifyBodies : VerifyRequest(body)

(***************************************************************************)
(* Properties of getWorkerCount (checked under ConfigSpec)                 *)
(***************************************************************************)
\* the place of the first character of str that is no space
FirstNonSpace(str) ==
    CHOOSE n \in 1..(Len(str) + 1) :
        /\ \A i \in 1..(n - 1) : str[i] = " "
        /\ n = Len(str) + 1 \/ str[n] # " "

\* the place where the run of digits that starts at place q of str ends
DigitsEnd(str, q) ==
    CHOOSE e \in (q - 1)..Len(str) :
        /\ \A i \in q..e : str[i] \in Digits
        /\ e = Len(str) \/ str[e + 1] \notin Digits

\* C17: getWorkerCount returns 1 when WORKER_COUNT is unset or blank (without
\* a warning), and when it does not start with a numeral or its numeral is
\* zero or negative; otherwise it returns the value of the numeral, also when
\* that exceeds the number of CPUs, which only adds a warning; the result is
\* at least 1.
C17_WorkerCountDefaulting ==
    workerCountOut # NotCalled =>
        LET env == workerCountEnv
            blank == env = Unset \/ \A i \in 1..Len(env) : env[i] = " "
            p == FirstNonSpace(env)
            negative == env[p] = "-"
            q == IF negative THEN p + 1 ELSE p
            e == DigitsEnd(env, q)
            numeric == e >= q
            value == DecimalValue(SubSeq(env, q, e))
        IN /\ workerCountOut >= 1
           /\ IF blank THEN workerCountOut = 1 /\ warnings = 0
              ELSE IF ~numeric \/ negative \/ value = 0 THEN workerCountOut = 1
              ELSE /\ workerCountOut = value
                   /\ warnings = IF value > cpuCount THEN 1 ELSE 0

\* C17 witness: a count above the number of CPUs was returned with a warning
C17_Witness ==
    /\ workerCountOut > cpuCount
    /\ warnings = 1

(***************************************************************************)
(* Properties of the internal endpoints (checked under InternalSpec)       *)
(***************************************************************************)
\* C14: with a secret configured, a POST /internal/sync or a GET
\* /internal/credentials whose x-internal-sync-key header is missing or
\* differs from the secret is answered 401 whatever its body or query is, the
\* store stays as it is and the answer carries no credential; with no secret
\* configured, and with the right header, no request is answered 401.
C14_UnauthorizedRejectedFirst ==
    [][/\ lastOp'.op = "sync" =>
             IF ~lastOp'.keyOk
             THEN /\ vSecret # NoSecret
                  /\ lastOp'.status = 401
                  /\ lastOp'.data = <<>>
                  /\ vstore' = vstore
             ELSE lastOp'.status # 401
       /\ lastOp'.op = "list" =>
             IF ~lastOp'.keyOk
             THEN /\ iSecret # NoSecret
                  /\ lastOp'.status = 401
                  /\ lastOp'.data = <<>>
                  /\ istore' = istore
             ELSE lastOp'.status # 401]_vars

\* C25: a record of the verification store never changes: after a sync request
\* or a catch-up the record of every id that was stored before is the record
\* that was stored before.
C25_StoredRecordNeverChanges ==
    [][\A c \in vstore : \A d \in vstore' : c.id = d.id => d = c]_vars

\* C14 witness: a POST /internal/sync with a wrong key and a body the schema
\* rejects was answered 401 while the store holds credentials
C14_Witness ==
    /\ lastOp.op = "sync"
    /\ lastOp.status = 401
    /\ ~lastOp.bodyOk
    /\ vstore # {}

(***************************************************************************)
(* Properties of GET /internal/credentials (checked under ListSpec)        *)
(***************************************************************************)
\* C16: an authorized GET /internal/credentials with a valid since S is
\* answered 200 with exactly the stored credentials whose issuedAt is strictly
\* after S, each once, in ascending order of issuedAt; with since absent, with
\* all stored credentials; and count is the number of entries of data.
C16_ListAfterSince ==
    (lastOp.op = "list" /\ lastOp.keyOk /\ lastOp.since # InvalidSince) =>
        LET S == lastOp.since
            data == lastOp.data
            expected ==
                IF S = NoCursor \/ S = BlankSince THEN istore
                ELSE {c \in istore :
                        \/ c.issuedAt[1] > S[1]
                        \/ c.issuedAt[1] = S[1] /\ Len(S) = 2 /\ 0 > S[2]}
        IN /\ lastOp.status = 200
           /\ {data[i] : i \in 1..Len(data)} = expected
           /\ Len(data) = Cardinality(expected)
           /\ \A i \in 1..Len(data) : \A j \in 1..Len(data) :
                 i < j => data[i].issuedAt[1] <= data[j].issuedAt[1]
           /\ lastOp.count = Len(data)

\* the issuance service holds what it issued up to the last day; the
\* verification service holds what earlier runs stored and has not started
\* yet
InternalInit ==
    /\ today = MaxDay
    /\ iSecret \in Secrets
    /\ istore \in IssuableStores
    /\ hpc = "idle"
    /\ hcred = NoCred
    /\ attempt = 0
    /\ outcomes = <<>>
    /\ sleeps = <<>>
    /\ response = NoResponse
    /\ vSecret \in Secrets
    /\ vstore \in IssuableStores
    /\ vphase = "offline"
    /\ cursor = NoCursor
    /\ reply = NoReply
    /\ lastCatchUp = NoCatchUp
    /\ issuedOffline = Ids(istore)
    /\ SupInitWith(2, TRUE)
    /\ ConfigIdle /\ EndpointIdle /\ RaceIdle

InternalNext ==
    \/ \E header \in Headers : \E sinceParam \in {NoCursor, InvalidSince} :
          ListRequest(header, sinceParam)
    \/ CatchUpStart
    \/ \E net \in {"neterr", "delivered"} : IssuanceReply(net, {})
    \/ CatchUpComplete
    \/ ReceiverStop
    \/ \E header \in Headers : \E body \in SyncBodies : SyncRequest(header, body)

\* the verification service with a store that earlier pushes and catch-ups
\* have filled, before a start
PullInit ==
    /\ today = MaxDay
    /\ iSecret = NoSecret
    /\ istore = {}
    /\ hpc = "idle"
    /\ hcred = NoCred
    /\ attempt = 0
    /\ outcomes = <<>>
    /\ sleeps = <<>>
    /\ response = NoResponse
    /\ vSecret = NoSecret
    /\ vstore \in IssuableStores
    /\ vphase = "offline"
    /\ cursor = NoCursor
    /\ reply = NoReply
    /\ lastCatchUp = NoCatchUp
    /\ issuedOffline = {}
    /\ SupInitWith(2, TRUE)
    /\ ConfigIdle /\ EndpointIdle /\ RaceIdle

PullNext ==
    \/ CatchUpStart
    \/ \E rep \in PullReplies : ForeignReply(rep)
    \/ CatchUpComplete
    \/ ReceiverStop

SupInit ==
    /\ \E n \in 2..MaxWorkers : \E cb \in BOOLEAN : SupInitWith(n, cb)
    /\ SyncInitWith(NoSecret, NoSecret)
    /\ ConfigIdle /\ EndpointIdle /\ RaceIdle

SyncInit ==
    /\ \E is \in Secrets : \E vs \in Secrets : SyncInitWith(is, vs)
    /\ SupInitWith(2, TRUE)
    /\ ConfigIdle /\ EndpointIdle /\ RaceIdle

SupNext ==
    \/ \E w \in WorkerIds : WorkerListening(w)
    \/ \E w \in WorkerIds : WorkerExit(w)
    \/ \E w \in WorkerIds : MasterOnMessage(w)
    \/ \E w \in WorkerIds : OnExit(w)
    \/ \E sig \in {"SIGTERM", "SIGINT"} : Signal(sig)
    \/ Tick
    \/ ForceShutdown

SupervisorSpec == SupInit /\ [][SupNext]_vars

\* the primary at the call of setupMaster, before the fork loop: no worker
\* has been forked
ForkFailInit ==
    /\ expectedWorkers \in 2..MaxWorkers
    /\ onWorkerReady \in BOOLEAN
    /\ readyWorkers = 0
    /\ readyCalls = 0
    /\ nextWorkerId = 1
    /\ wstate = [w \in WorkerIds |-> "none"]
    /\ listener = [w \in WorkerIds |-> "none"]
    /\ stopsSent = [w \in WorkerIds |-> 0]
    /\ inbox = {}
    /\ exitEvents = {}
    /\ primary = "running"
    /\ signals = 0
    /\ timers = <<>>
    /\ elapsed = 0
    /\ forceKilled = {}
    /\ sentReady = {}
    /\ isPrimary = TRUE
    /\ mode = "supervisor"
    /\ sent = 0
    /\ SyncInitWith(NoSecret, NoSecret)
    /\ ConfigIdle /\ EndpointIdle /\ RaceIdle

\* the supervisor on a host where a fork can fail
ForkFailNext ==
    \/ \E w \in WorkerIds : WorkerListening(w)
    \/ \E w \in WorkerIds : WorkerExit(w)
    \/ \E w \in WorkerIds : MasterOnMessage(w)
    \/ \E w \in WorkerIds : OnExit(w)
    \/ \E w \in WorkerIds : \E how \in ForkFailures : OnExitForkFails(w, how)
    \/ ForkLoop
    \/ \E result \in [1..expectedWorkers -> ForkResults] : ForkLoopFails(result)

ForkFailSpec == ForkFailInit /\ [][ForkFailNext]_vars

\* one process from its start: the primary of a cluster with its workers, a
\* forked worker, or the single process of a service without a cluster
ProcessInit ==
    /\ MainInit
    /\ SyncInitWith(NoSecret, NoSecret)
    /\ EndpointIdle /\ RaceIdle

ProcessNext ==
    \/ Main
    \/ InitializeDatabaseOk
    \/ InitializeDatabaseFails
    \/ AppListening
    \/ \E w \in WorkerIds : WorkerListening(w)
    \/ \E w \in WorkerIds : WorkerExit(w)
    \/ \E w \in WorkerIds : MasterOnMessage(w)
    \/ \E w \in WorkerIds : OnExit(w)

ProcessSpec == ProcessInit /\ [][ProcessNext]_vars

Spec == SyncInit /\ [][SyncNext]_vars

ReceiverSpec == ReceiverInit /\ [][ReceiverNext]_vars

PullSpec == PullInit /\ [][PullNext]_vars

InternalSpec == InternalInit /\ [][InternalNext]_vars

ListNext ==
    \E header \in Headers : \E sinceParam \in SinceParams :
        ListRequest(header, sinceParam)

ListSpec == InternalInit /\ [][ListNext]_vars

RaceInit ==
    /\ SyncInitWith(NoSecret, NoSecret)
    /\ SupInitWith(2, TRUE)
    /\ ConfigIdle /\ EndpointIdle /\ RaceIdle

RaceSpec == RaceInit /\ [][RaceNext]_vars

ConfigStart ==
    /\ ConfigInit
    /\ SupInitWith(2, TRUE)
    /\ SyncInitWith(NoSecret, NoSecret)
    /\ EndpointIdle /\ RaceIdle

ConfigNext == GetWorkerCountCall

ConfigSpec == ConfigStart /\ [][ConfigNext]_vars

====
